---- MODULE Spec2Model ----
(***************************************************************************)
(* The WebSocket gateway of hub-server: the per-connection context         *)
(* (socket.data), the in-memory room registry (WSState), the message       *)
(* router (wsGateway.message), the handlers and the connection close.      *)
(*                                                                         *)
(* A handler is an async function: it runs up to its next `await` in one   *)
(* step, is then suspended (a record in `inflight`) and resumes in a later *)
(* step.  Nothing in the gateway waits for a handler to finish before the  *)
(* next event of the same socket is delivered, so messages, resumptions    *)
(* and the close event of all connections interleave at the awaits.        *)
(***************************************************************************)
EXTENDS Integers, Sequences, FiniteSets, TLC

\* Bounds of the model: the inbound messages accepted over one run that starts
\* with no connection (Spec), and over one run that starts with every
\* connection open and authenticated (SpecRoom, SpecModeration).
MaxMessages == 3
MaxRoomMessages == 3
\* ... and over one run that starts with sessions already in a room
\* (SpecEvents, SpecScoped).
MaxSessionMessages == 2
\* A typed meeting code has at most MaxCodeLen characters, of which at most
\* MaxUpper are uppercase letters and at most MaxHyphens are hyphens.
MaxCodeLen == 13
MaxUpper == 1
MaxHyphens == 3

Conns == {"c1", "c2"}
Meetings == {"m1", "m2"}
RequestIds == {"r1"}
Users == {"u1"}

\* Rows of the participants table, as participantsService.findById returns
\* them (id, userId, role, meeting.id, user.displayName).
ParticipantOrder == <<"p1", "p2", "p3">>
ParticipantIds == {"p1", "p2", "p3"}
Participant(p) ==
    CASE p = "p1" -> [id |-> "p1", userId |-> "u1", role |-> "host",
                      meetingId |-> "m1", displayName |-> "Ann"]
      [] p = "p2" -> [id |-> "p2", userId |-> "none", role |-> "guest",
                      meetingId |-> "m1", displayName |-> "none"]
      [] OTHER    -> [id |-> "p3", userId |-> "none", role |-> "cohost",
                      meetingId |-> "m2", displayName |-> "none"]

\* Tokens a client may present.  A room token is signed for a participant id;
\* "ghost" is a validly signed token whose participant row does not exist.
AccessTokens == Users \cup {"bad"}
\* The room tokens each client holds: c1 is the host of m1 and the cohost of m2,
\* c2 is the guest of m1 and also holds the host's token (a second tab, a
\* reconnect).
Holds(c) == IF c = "c1" THEN {"p1", "p3"} ELSE {"p2", "p1"}
RoomTokens(c) == Holds(c) \cup {"bad", "ghost"}
Devices == {[mic |-> TRUE, cam |-> FALSE]}

VARIABLES
    status,     \* connection -> "new" | "open" | "closed"
    data,       \* connection -> socket.data (WSContext)
    rooms,      \* wsState.rooms: meetingId -> (participantId -> connection)
    inflight,   \* connection -> handlers suspended at an await
    sent,       \* what the last step delivered: <<[to, msg], ...>> in send order
    published,  \* what the last step handed to the relay: <<[channel, msg], ...>>
    bcast,      \* the broadcastToRoom call of the last step: <<[meetingId, msg, exclude]>>
    event,      \* the last step: [op, conn, msg, handler, caught]
    budget,     \* inbound messages still accepted
    joins,      \* meetingId -> completed addToRoom calls of room.join
    leaves,     \* meetingId -> completed leaves (room.leave, close, removal)
    preJoin,    \* the registry as it was before the latest join, while nothing
                \* but that socket's room.leave has happened since
    channel,    \* the broker: publications it has accepted and not yet fanned out
    code,       \* a meeting code: [origin, chars], generated or typed by a client
    verdict,    \* what validateMeetingCode said of `code`, "none" before it ran
    announcedLeft, \* the <<meeting, participantId>> whose participant.left was
                \* broadcast since the participant last joined
    invite,     \* the status column of one row of the invites table
    participants, \* the rows InvitesService.accept has inserted into participants
    calls       \* the InvitesService calls in progress

vars == <<status, data, rooms, inflight, sent, published, bcast, event, budget,
          joins, leaves, preJoin, channel, code, verdict,
          announcedLeft, invite, participants, calls>>

----------------------------------------------------------------------------
(* Values *)

NoPayload == [absent |-> TRUE]
NoMsg == [type |-> "none", requestId |-> "none", payload |-> NoPayload]
NoMedia == [mic |-> "undefined", cam |-> "undefined", screen |-> "undefined"]

\* WSContext as open() leaves it: { authenticated: false }.
NewContext ==
    [authenticated |-> FALSE, userId |-> "none", participantId |-> "none",
     meetingId |-> "none", role |-> "none", displayName |-> "none",
     mediaState |-> NoMedia, handRaised |-> "undefined"]

HasPayload(msg) == msg.payload # NoPayload

\* WSResponse
Response(type, requestId, payload, error) ==
    [type |-> type, requestId |-> requestId, payload |-> payload, error |-> error]

OnOff(b) == IF b THEN "on" ELSE "off"

\* socket.send on a socket that is no longer open delivers nothing.
Deliver(sends) == SelectSeq(sends, LAMBDA s : status[s.to] = "open")

----------------------------------------------------------------------------
(* WSState *)

EmptyRoom == [p \in {} |-> "c1"]

addToRoom(r, meetingId, participantId, socket) ==
    LET room == IF meetingId \in DOMAIN r THEN r[meetingId] ELSE EmptyRoom
        room2 == [p \in DOMAIN room \cup {participantId} |->
                     IF p = participantId THEN socket ELSE room[p]]
    IN  [m \in DOMAIN r \cup {meetingId} |-> IF m = meetingId THEN room2 ELSE r[m]]

\* removeFromRoom as it would be without the deletion of the emptied room.
removeFromRoom_KeepEmpty(r, meetingId, participantId) ==
    IF meetingId \notin DOMAIN r THEN r
    ELSE [r EXCEPT ![meetingId] =
             [p \in DOMAIN r[meetingId] \ {participantId} |-> r[meetingId][p]]]

removeFromRoom(r, meetingId, participantId) ==
    IF meetingId \notin DOMAIN r THEN r
    ELSE LET room2 == [p \in DOMAIN r[meetingId] \ {participantId} |-> r[meetingId][p]]
         IN  IF DOMAIN room2 = {}
             THEN [m \in DOMAIN r \ {meetingId} |-> r[m]]
             ELSE [r EXCEPT ![meetingId] = room2]

\* Array.from(room.sockets.values()): one element per registered participantId.
\* The order of the array is the map's insertion order; no client can observe
\* the order of sends to different sockets, so the table order stands for it.
getRoomSockets(r, meetingId) ==
    IF meetingId \notin DOMAIN r THEN <<>>
    ELSE LET ps == SelectSeq(ParticipantOrder, LAMBDA p : p \in DOMAIN r[meetingId])
         IN  [i \in 1..Len(ps) |-> r[meetingId][ps[i]]]

\* getSocket as it would be if it searched every room for the participant.
getSocket_AnyRoom(r, meetingId, participantId) ==
    IF \E m \in DOMAIN r : participantId \in DOMAIN r[m]
    THEN r[CHOOSE m \in DOMAIN r : participantId \in DOMAIN r[m]][participantId]
    ELSE "none"

\* The socket registered under (meetingId, participantId), or "none".
getSocket(r, meetingId, participantId) ==
    IF meetingId \in DOMAIN r /\ participantId \in DOMAIN r[meetingId]
    THEN r[meetingId][participantId] ELSE "none"

\* The sends of one broadcastToRoom call; d is socket.data at the time of the call.
broadcastToRoom(r, d, meetingId, message, excludeParticipantId) ==
    LET sockets == getRoomSockets(r, meetingId)
        kept == SelectSeq(sockets, LAMBDA s :
                    ~(excludeParticipantId # "none"
                      /\ d[s].participantId = excludeParticipantId))
    IN  [i \in 1..Len(kept) |-> [to |-> kept[i], msg |-> message]]

\* The arguments of a broadcastToRoom call.
Broadcast(meetingId, message, excludeParticipantId) ==
    <<[meetingId |-> meetingId, msg |-> message, exclude |-> excludeParticipantId]>>

\* publishToMeeting as it would be if it never reached the broker.
publishToMeeting_Dropped(brokerUp, meetingId, message) == <<>>

\* publishToMeeting: the message reaches the channel unless the broker is down.
publishToMeeting(brokerUp, meetingId, message) ==
    IF brokerUp THEN <<[channel |-> meetingId, msg |-> message]>> ELSE <<>>

----------------------------------------------------------------------------
(* Inbound messages *)

Msg(type, requestId, payload) == [type |-> type, requestId |-> requestId, payload |-> payload]

AuthenticateMessages ==
    {Msg("auth.authenticate", rid, pl) :
        rid \in RequestIds,
        pl \in {[accessToken |-> t] : t \in AccessTokens} \cup {NoPayload}}

\* The device part of room.join is optional on the wire.
RoomJoinMessages(c) ==
    {Msg("room.join", rid, pl) :
        rid \in RequestIds,
        pl \in {[roomToken |-> t, device |-> dv] : t \in RoomTokens(c), dv \in Devices}
               \cup {[roomToken |-> t] : t \in Holds(c)}
               \cup {NoPayload}}

\* room.join as a client that follows the protocol sends it.
WellFormedJoinMessages(c) ==
    {Msg("room.join", rid, [roomToken |-> t, device |-> dv]) :
        rid \in RequestIds, t \in Holds(c), dv \in Devices}

RoomLeaveMessages == {Msg("room.leave", rid, NoPayload) : rid \in RequestIds}

ChatSendMessages ==
    {Msg("chat.send", rid, pl) : rid \in RequestIds, pl \in {[text |-> "hi"], NoPayload}}

ModerationMessages(type) ==
    {Msg(type, rid, pl) :
        rid \in RequestIds,
        pl \in {[participantId |-> p] : p \in ParticipantIds} \cup {NoPayload}}

\* "ping" stands for every type the switch has no case for.
UnknownMessages == {Msg("ping", rid, NoPayload) : rid \in RequestIds}

\* The alphabets of the three specifications.
\* SpecRoom: one meeting, m1.
RoomMessages(c) ==
    {msg \in WellFormedJoinMessages(c) : Participant(msg.payload.roomToken).meetingId = "m1"}
    \cup RoomLeaveMessages
    \cup ChatSendMessages

ModerationAlphabet(c) ==
    WellFormedJoinMessages(c) \cup ModerationMessages("moderation.mute")
    \cup ModerationMessages("moderation.remove")

Messages(c) ==
    AuthenticateMessages \cup UnknownMessages \cup RoomJoinMessages(c)
    \cup RoomLeaveMessages \cup ChatSendMessages
    \cup ModerationMessages("moderation.mute")
    \cup ModerationMessages("moderation.remove")

----------------------------------------------------------------------------
(* Steps *)

Event(op, c, msg, handler, caught) ==
    [op |-> op, conn |-> c, msg |-> msg, handler |-> handler, caught |-> caught]

NoPreJoin == [conn |-> "none", rooms |-> <<>>]

\* preJoin follows the steps: a join that completes with no other handler of
\* its socket in flight records the registry it found; the record stays while
\* that socket sends room.leave and the leave removes it from the registry, and
\* is dropped by any other step of that socket and by any other change of the
\* registry.
TrackPreJoin ==
    preJoin' =
        IF event'.handler = "handleRoomJoin" /\ joins' # joins
        THEN IF inflight'[event'.conn] = <<>>
             THEN [conn |-> event'.conn, rooms |-> rooms]
             ELSE NoPreJoin
        ELSE IF preJoin.conn = "none" THEN preJoin
        ELSE IF event'.conn = preJoin.conn
        THEN IF event'.handler = "handleRoomLeave"
                /\ (event'.op = "message" \/ bcast' # <<>>)
                /\ Len(inflight'[event'.conn]) <= 1
             THEN preJoin
             ELSE NoPreJoin
        ELSE IF rooms' = rooms THEN preJoin ELSE NoPreJoin

RemoveAt(s, i) == SubSeq(s, 1, i - 1) \o SubSeq(s, i + 1, Len(s))

Suspended(await, msg, locals) == [await |-> await, msg |-> msg, locals |-> locals]
NoLocals == [none |-> TRUE]

\* A client message arrives on an open socket and wsGateway.message starts.
Accept(c, msg, handler, caught) ==
    /\ status[c] = "open"
    /\ budget > 0
    /\ budget' = budget - 1
    /\ event' = Event("message", c, msg, handler, caught)

\* The awaited promise of inflight[c][i] settles and the handler runs on.
Resume(c, i, await, handler, caught) ==
    /\ i \in DOMAIN inflight[c]
    /\ inflight[c][i].await = await
    /\ event' = Event("resume", c, inflight[c][i].msg, handler, caught)
    /\ UNCHANGED budget

SendTo(c, msg) == <<[to |-> c, msg |-> msg]>>

ErrorTo(c, requestId, error) == SendTo(c, Response("error", requestId, NoPayload, error))

\* The requests that call InvitesService, none of them started.
Requests == {"q1", "q2"}
NoCalls ==
    [q \in Requests |-> [op |-> "none", inviteId |-> "none", at |-> "idle", result |-> "none"]]

\* No meeting code has been generated or typed.
NoCode == [origin |-> "none", chars |-> <<>>]

----------------------------------------------------------------------------
(* Connection lifecycle *)

Init ==
    /\ status = [c \in Conns |-> "new"]
    /\ data = [c \in Conns |-> NewContext]
    /\ rooms = [m \in {} |-> EmptyRoom]
    /\ inflight = [c \in Conns |-> <<>>]
    /\ sent = <<>>
    /\ published = <<>>
    /\ bcast = <<>>
    /\ event = Event("init", "none", NoMsg, "none", FALSE)
    /\ budget = MaxMessages
    /\ joins = [m \in Meetings |-> 0]
    /\ leaves = [m \in Meetings |-> 0]
    /\ preJoin = NoPreJoin
    /\ channel = <<>>
    /\ code = NoCode
    /\ verdict = "none"
    /\ announcedLeft = {}
    /\ invite = "pending"
    /\ participants = 0
    /\ calls = NoCalls

\* wsGateway.open
Open(c) ==
    /\ status[c] = "new"
    /\ status' = [status EXCEPT ![c] = "open"]
    /\ data' = [data EXCEPT ![c] = NewContext]
    /\ sent' = <<>>
    /\ published' = <<>>
    /\ bcast' = <<>>
    /\ event' = Event("open", c, NoMsg, "none", FALSE)
    /\ UNCHANGED <<rooms, inflight, budget, joins, leaves>>
    /\ TrackPreJoin

InRoom(d) == d.meetingId # "none" /\ d.participantId # "none"

\* wsGateway.close
Close(c) ==
    /\ status[c] = "open"
    /\ status' = [status EXCEPT ![c] = "closed"]
    /\ IF InRoom(data[c])
       THEN /\ rooms' = removeFromRoom(rooms, data[c].meetingId, data[c].participantId)
            /\ leaves' = [leaves EXCEPT ![data[c].meetingId] = @ + 1]
       ELSE UNCHANGED <<rooms, leaves>>
    /\ sent' = <<>>
    /\ published' = <<>>
    /\ bcast' = <<>>
    /\ event' = Event("close", c, NoMsg, "none", FALSE)
    /\ UNCHANGED <<data, inflight, budget, joins>>
    /\ TrackPreJoin

----------------------------------------------------------------------------
(* wsGateway.message: the router *)

\* JSON.parse throws on a frame that is no JSON; the outer catch answers.
MalformedMessage(c) ==
    /\ Accept(c, NoMsg, "none", TRUE)
    /\ sent' = Deliver(ErrorTo(c, "none", "Internal server error"))
    /\ published' = <<>>
    /\ bcast' = <<>>
    /\ UNCHANGED <<status, data, rooms, inflight, joins, leaves>>
    /\ TrackPreJoin

NotAuthenticated(c, msg) ==
    /\ msg.type # "auth.authenticate"
    /\ ~data[c].authenticated
    /\ Accept(c, msg, "none", FALSE)
    /\ sent' = Deliver(ErrorTo(c, msg.requestId, "Not authenticated"))
    /\ published' = <<>>
    /\ bcast' = <<>>
    /\ UNCHANGED <<status, data, rooms, inflight, joins, leaves>>
    /\ TrackPreJoin

UnknownType(c, msg) ==
    /\ msg \in UnknownMessages
    /\ data[c].authenticated
    /\ Accept(c, msg, "none", FALSE)
    /\ sent' = Deliver(ErrorTo(c, msg.requestId, "Unknown message type: ping"))
    /\ published' = <<>>
    /\ bcast' = <<>>
    /\ UNCHANGED <<status, data, rooms, inflight, joins, leaves>>
    /\ TrackPreJoin

\* The router as it would be without the check of lines 267-275.
Routed_NoGate(c, msg, type) == msg.type = type

\* The switch reaches a handler only on an authenticated socket.
Routed(c, msg, type) == msg.type = type /\ data[c].authenticated

----------------------------------------------------------------------------
(* handleAuthenticate *)

HandleAuthenticate(c, msg) ==
    /\ msg.type = "auth.authenticate"
    /\ Accept(c, msg, "handleAuthenticate", ~HasPayload(msg))
    /\ published' = <<>>
    /\ bcast' = <<>>
    /\ IF ~HasPayload(msg)
       THEN \* message.payload! is undefined: the destructuring throws
            /\ sent' = Deliver(SendTo(c, Response("auth.error", msg.requestId, NoPayload,
                                                  "Authentication failed")))
            /\ UNCHANGED inflight
       ELSE /\ sent' = <<>>
            /\ inflight' = [inflight EXCEPT ![c] =
                   Append(@, Suspended("access.verify", msg, NoLocals))]
    /\ UNCHANGED <<status, data, rooms, joins, leaves>>
    /\ TrackPreJoin

AuthenticateVerified(c, i) ==
    /\ Resume(c, i, "access.verify", "handleAuthenticate", FALSE)
    /\ LET msg == inflight[c][i].msg
           token == msg.payload.accessToken
       IN  IF token \in Users
           THEN /\ data' = [data EXCEPT ![c].authenticated = TRUE, ![c].userId = token]
                /\ sent' = Deliver(SendTo(c, Response("auth.ok", msg.requestId,
                                                      [userId |-> token], "none")))
           ELSE /\ sent' = Deliver(SendTo(c, Response("auth.error", msg.requestId, NoPayload,
                                                      "Invalid access token")))
                /\ UNCHANGED data
    /\ inflight' = [inflight EXCEPT ![c] = RemoveAt(@, i)]
    /\ published' = <<>>
    /\ bcast' = <<>>
    /\ UNCHANGED <<status, rooms, joins, leaves>>
    /\ TrackPreJoin

----------------------------------------------------------------------------
(* handleRoomJoin *)

HandleRoomJoin(c, msg) ==
    /\ Routed(c, msg, "room.join")
    /\ Accept(c, msg, "handleRoomJoin", ~HasPayload(msg))
    /\ published' = <<>>
    /\ bcast' = <<>>
    /\ IF ~HasPayload(msg)
       THEN \* destructuring message.payload! throws; the catch answers
            /\ sent' = Deliver(ErrorTo(c, msg.requestId, "Failed to join room"))
            /\ UNCHANGED inflight
       ELSE /\ sent' = <<>>
            /\ inflight' = [inflight EXCEPT ![c] =
                   Append(@, Suspended("findById", msg, NoLocals))]
    /\ UNCHANGED <<status, data, rooms, joins, leaves>>
    /\ TrackPreJoin

PeerInfo(d) ==
    [participantId |-> d.participantId, displayName |-> d.displayName,
     role |-> d.role, mediaState |-> d.mediaState, handRaised |-> d.handRaised]

\* Lines 197-203: the socket context taken from the participant row.
JoinContext(d, participant) ==
    [d EXCEPT !.authenticated = TRUE,
              !.participantId = participant.id,
              !.userId = participant.userId,
              !.meetingId = participant.meetingId,
              !.role = participant.role,
              !.displayName = IF participant.displayName = "none"
                              THEN "Guest" ELSE participant.displayName]

\* Lines 204-209.
JoinMedia(d, device) ==
    [d EXCEPT !.mediaState = [mic |-> OnOff(device.mic), cam |-> OnOff(device.cam),
                              screen |-> "off"],
              !.handRaised = "false"]

ParticipantJoinedMessage(d) ==
    Response("participant.joined", "none",
             [participantId |-> d.participantId, displayName |-> d.displayName,
              role |-> d.role, mediaState |-> d.mediaState, handRaised |-> "false"],
             "none")

\* `await verifyRoomToken` and `await participantsService.findById` have
\* settled (between the two the handler touches nothing but its own locals, so
\* they are one suspension here); the rest of the handler up to
\* `await publishToMeeting` runs without suspension.
ParticipantFound(c, i, dbUp, brokerUp) ==
    /\ i \in DOMAIN inflight[c]
    /\ inflight[c][i].await = "findById"
    /\ LET msg == inflight[c][i].msg
           sub == msg.payload.roomToken
       IN  IF sub = "bad"
           THEN \* verifyRoomToken returns false
                /\ Resume(c, i, "findById", "handleRoomJoin", FALSE)
                /\ sent' = Deliver(ErrorTo(c, msg.requestId, "Invalid room token"))
                /\ inflight' = [inflight EXCEPT ![c] = RemoveAt(@, i)]
                /\ published' = <<>>
                /\ bcast' = <<>>
                /\ UNCHANGED <<data, rooms, joins>>
           ELSE IF ~dbUp
           THEN \* the query rejects; the catch answers
                /\ Resume(c, i, "findById", "handleRoomJoin", TRUE)
                /\ sent' = Deliver(ErrorTo(c, msg.requestId, "Failed to join room"))
                /\ inflight' = [inflight EXCEPT ![c] = RemoveAt(@, i)]
                /\ published' = <<>>
                /\ bcast' = <<>>
                /\ UNCHANGED <<data, rooms, joins>>
           ELSE IF sub \notin ParticipantIds
           THEN /\ Resume(c, i, "findById", "handleRoomJoin", FALSE)
                /\ sent' = Deliver(ErrorTo(c, msg.requestId, "Participant not found"))
                /\ inflight' = [inflight EXCEPT ![c] = RemoveAt(@, i)]
                /\ published' = <<>>
                /\ bcast' = <<>>
                /\ UNCHANGED <<data, rooms, joins>>
           ELSE IF "device" \notin DOMAIN msg.payload
           THEN \* device.mic on an undefined device throws at line 205, after
                \* lines 198-203 have written the context; the catch answers
                /\ Resume(c, i, "findById", "handleRoomJoin", TRUE)
                /\ data' = [data EXCEPT ![c] = JoinContext(@, Participant(sub))]
                /\ sent' = Deliver(ErrorTo(c, msg.requestId, "Failed to join room"))
                /\ inflight' = [inflight EXCEPT ![c] = RemoveAt(@, i)]
                /\ published' = <<>>
                /\ bcast' = <<>>
                /\ UNCHANGED <<rooms, joins>>
           ELSE LET participant == Participant(sub)
                    meetingId == participant.meetingId
                    d2 == [data EXCEPT ![c] =
                              JoinMedia(JoinContext(@, participant), msg.payload.device)]
                    r2 == addToRoom(rooms, meetingId, participant.id, c)
                    others == SelectSeq(getRoomSockets(r2, meetingId),
                                  LAMBDA s : d2[s].participantId # participant.id)
                    peers == [k \in 1..Len(others) |-> PeerInfo(d2[others[k]])]
                    joinedResponse ==
                        Response("room.joined", msg.requestId,
                                 [meeting |-> meetingId,
                                  selfParticipant |->
                                      [participantId |-> participant.id,
                                       displayName |-> d2[c].displayName,
                                       role |-> participant.role,
                                       mediaState |-> d2[c].mediaState],
                                  peers |-> peers],
                                 "none")
                    joinedMessage == ParticipantJoinedMessage(d2[c])
                IN  /\ Resume(c, i, "findById", "handleRoomJoin", FALSE)
                    /\ data' = d2
                    /\ rooms' = r2
                    /\ joins' = [joins EXCEPT ![meetingId] = @ + 1]
                    /\ sent' = Deliver(SendTo(c, joinedResponse)
                                   \o broadcastToRoom(r2, d2, meetingId, joinedMessage,
                                                      participant.id))
                    /\ bcast' = Broadcast(meetingId, joinedMessage, participant.id)
                    /\ published' = publishToMeeting(brokerUp, meetingId, joinedMessage)
                    /\ inflight' =
                           IF brokerUp
                           THEN \* nothing follows a publish that resolves
                                [inflight EXCEPT ![c] = RemoveAt(@, i)]
                           ELSE [inflight EXCEPT ![c][i] =
                                    Suspended("join.publish", msg, NoLocals)]
    /\ UNCHANGED <<status, leaves>>
    /\ TrackPreJoin

\* `await publishToMeeting` of handleRoomJoin rejects; the catch answers.
JoinPublishFailed(c, i) ==
    /\ Resume(c, i, "join.publish", "handleRoomJoin", TRUE)
    /\ sent' = Deliver(ErrorTo(c, inflight[c][i].msg.requestId, "Failed to join room"))
    /\ inflight' = [inflight EXCEPT ![c] = RemoveAt(@, i)]
    /\ published' = <<>>
    /\ bcast' = <<>>
    /\ UNCHANGED <<status, data, rooms, joins, leaves>>
    /\ TrackPreJoin

----------------------------------------------------------------------------
(* handleRoomLeave *)

ParticipantLeftMessage(participantId) ==
    Response("participant.left", "none", [participantId |-> participantId], "none")

\* handleRoomLeave as it would be without the early return of lines 279-281.
HandleRoomLeave_NoGuard(c, msg) ==
    /\ Routed(c, msg, "room.leave")
    /\ Accept(c, msg, "handleRoomLeave", FALSE)
    /\ sent' = <<>>
    /\ published' = <<>>
    /\ bcast' = <<>>
    /\ inflight' = [inflight EXCEPT ![c] =
           Append(@, Suspended("updateLeftAt", msg,
                     [participantId |-> data[c].participantId,
                      meetingId |-> data[c].meetingId]))]
    /\ UNCHANGED <<status, data, rooms, joins, leaves>>
    /\ TrackPreJoin

HandleRoomLeave(c, msg) ==
    /\ Routed(c, msg, "room.leave")
    /\ Accept(c, msg, "handleRoomLeave", FALSE)
    /\ sent' = <<>>
    /\ published' = <<>>
    /\ bcast' = <<>>
    /\ IF ~InRoom(data[c])
       THEN UNCHANGED inflight
       ELSE inflight' = [inflight EXCEPT ![c] =
                Append(@, Suspended("updateLeftAt", msg,
                          [participantId |-> data[c].participantId,
                           meetingId |-> data[c].meetingId]))]
    /\ UNCHANGED <<status, data, rooms, joins, leaves>>
    /\ TrackPreJoin

\* handleRoomLeave as it would be if it took the socket out of the registry
\* before it awaited updateLeftAt.
LeftAtUpdated_RemovedBefore(c, i, dbUp, brokerUp) ==
    /\ Resume(c, i, "updateLeftAt", "handleRoomLeave", ~dbUp \/ ~brokerUp)
    /\ LET msg == inflight[c][i].msg
           participantId == inflight[c][i].locals.participantId
           meetingId == inflight[c][i].locals.meetingId
           r2 == removeFromRoom(rooms, meetingId, participantId)
           leftMessage == ParticipantLeftMessage(participantId)
       IN  IF ~dbUp
           THEN \* the update rejects
                /\ sent' = <<>>
                /\ published' = <<>>
                /\ bcast' = <<>>
                /\ inflight' = [inflight EXCEPT ![c] = RemoveAt(@, i)]
                /\ rooms' = r2
                /\ UNCHANGED leaves
           ELSE /\ rooms' = r2
                /\ leaves' = [leaves EXCEPT ![meetingId] = @ + 1]
                /\ sent' = Deliver(broadcastToRoom(r2, data, meetingId, leftMessage, "none"))
                /\ bcast' = Broadcast(meetingId, leftMessage, "none")
                /\ published' = publishToMeeting(brokerUp, meetingId, leftMessage)
                /\ inflight' =
                       IF brokerUp
                       THEN [inflight EXCEPT ![c][i] =
                                Suspended("leave.publish", msg, NoLocals)]
                       ELSE \* the publish rejects; the catch only logs
                            [inflight EXCEPT ![c] = RemoveAt(@, i)]
    /\ UNCHANGED <<status, data, joins>>
    /\ TrackPreJoin

\* participantsService.updateLeftAt has settled.
LeftAtUpdated(c, i, dbUp, brokerUp) ==
    /\ Resume(c, i, "updateLeftAt", "handleRoomLeave", ~dbUp \/ ~brokerUp)
    /\ LET msg == inflight[c][i].msg
           participantId == inflight[c][i].locals.participantId
           meetingId == inflight[c][i].locals.meetingId
           r2 == removeFromRoom(rooms, meetingId, participantId)
           leftMessage == ParticipantLeftMessage(participantId)
       IN  IF ~dbUp
           THEN \* the update rejects; the catch only logs
                /\ sent' = <<>>
                /\ published' = <<>>
                /\ bcast' = <<>>
                /\ inflight' = [inflight EXCEPT ![c] = RemoveAt(@, i)]
                /\ UNCHANGED <<rooms, leaves>>
           ELSE /\ rooms' = r2
                /\ leaves' = [leaves EXCEPT ![meetingId] = @ + 1]
                /\ sent' = Deliver(broadcastToRoom(r2, data, meetingId, leftMessage, "none"))
                /\ bcast' = Broadcast(meetingId, leftMessage, "none")
                /\ published' = publishToMeeting(brokerUp, meetingId, leftMessage)
                /\ inflight' =
                       IF brokerUp
                       THEN [inflight EXCEPT ![c][i] =
                                Suspended("leave.publish", msg, NoLocals)]
                       ELSE \* the publish rejects; the catch only logs
                            [inflight EXCEPT ![c] = RemoveAt(@, i)]
    /\ UNCHANGED <<status, data, joins>>
    /\ TrackPreJoin

\* `await publishToMeeting` of handleRoomLeave resolves.
LeavePublished(c, i) ==
    /\ Resume(c, i, "leave.publish", "handleRoomLeave", FALSE)
    /\ sent' = Deliver(SendTo(c, Response("room.left", inflight[c][i].msg.requestId,
                                          NoPayload, "none")))
    /\ data' = [data EXCEPT ![c].participantId = "none", ![c].meetingId = "none"]
    /\ inflight' = [inflight EXCEPT ![c] = RemoveAt(@, i)]
    /\ published' = <<>>
    /\ bcast' = <<>>
    /\ UNCHANGED <<status, rooms, joins, leaves>>
    /\ TrackPreJoin

----------------------------------------------------------------------------
(* handleChatSend *)

\* id (a ulid) and ts of chat.message are fresh values no handler reads.
HandleChatSend(c, msg, brokerUp) ==
    /\ Routed(c, msg, "chat.send")
    /\ Accept(c, msg, "handleChatSend",
              InRoom(data[c]) /\ (~HasPayload(msg) \/ ~brokerUp))
    /\ LET d == data[c]
           chatMessage == Response("chat.message", "none",
                              [participantId |-> d.participantId,
                               sender |-> d.displayName, text |-> msg.payload.text],
                              "none")
       IN  IF ~InRoom(d)
           THEN /\ sent' = Deliver(ErrorTo(c, msg.requestId, "Not in a room"))
                /\ published' = <<>>
                /\ bcast' = <<>>
           ELSE IF ~HasPayload(msg)
           THEN \* message.payload! is undefined; the catch only logs
                /\ sent' = <<>>
                /\ published' = <<>>
                /\ bcast' = <<>>
           ELSE /\ sent' = Deliver(broadcastToRoom(rooms, data, d.meetingId,
                                                   chatMessage, "none"))
                /\ bcast' = Broadcast(d.meetingId, chatMessage, "none")
                /\ published' = publishToMeeting(brokerUp, d.meetingId, chatMessage)
    /\ UNCHANGED <<status, data, rooms, inflight, joins, leaves>>
    /\ TrackPreJoin

----------------------------------------------------------------------------
(* handleModerationMute, handleModerationRemove *)

\* The role check as it would be if it let every role through.
MayModerate_Everyone(role) == TRUE

MayModerate(role) == role = "host" \/ role = "cohost"

MediaChangedMessage(participantId, patch) ==
    Response("media.changed", "none", [participantId |-> participantId, patch |-> patch],
             "none")

\* The catch of a moderation handler runs when message.payload! is undefined
\* and when the publish of a found target rejects.
ModerationCaught(c, msg, brokerUp) ==
    /\ InRoom(data[c])
    /\ MayModerate(data[c].role)
    /\ \/ ~HasPayload(msg)
       \/ /\ getSocket(rooms, data[c].meetingId, msg.payload.participantId) # "none"
          /\ ~brokerUp

HandleModerationMute(c, msg, brokerUp) ==
    /\ Routed(c, msg, "moderation.mute")
    /\ Accept(c, msg, "handleModerationMute", ModerationCaught(c, msg, brokerUp))
    /\ LET d == data[c]
           targetId == msg.payload.participantId
           targetSocket == getSocket(rooms, d.meetingId, targetId)
           muteMessage == Response("moderation.muted", "none",
                                   [by |-> d.participantId], "none")
           mediaChangedMessage == MediaChangedMessage(targetId, [mic |-> "off"])
           d2 == IF data[targetSocket].mediaState # NoMedia
                 THEN [data EXCEPT ![targetSocket].mediaState.mic = "off"]
                 ELSE data
       IN  IF ~InRoom(d)
           THEN /\ sent' = <<>>
                /\ published' = <<>>
                /\ bcast' = <<>>
                /\ UNCHANGED data
           ELSE IF ~MayModerate(d.role)
           THEN /\ sent' = Deliver(ErrorTo(c, msg.requestId, "Insufficient permissions"))
                /\ published' = <<>>
                /\ bcast' = <<>>
                /\ UNCHANGED data
           ELSE IF ~HasPayload(msg)
           THEN \* message.payload! is undefined; the catch only logs
                /\ sent' = <<>>
                /\ published' = <<>>
                /\ bcast' = <<>>
                /\ UNCHANGED data
           ELSE IF targetSocket = "none"
           THEN /\ sent' = <<>>
                /\ published' = <<>>
                /\ bcast' = <<>>
                /\ UNCHANGED data
           ELSE /\ data' = d2
                /\ sent' = Deliver(SendTo(targetSocket, muteMessage)
                               \o broadcastToRoom(rooms, d2, d.meetingId,
                                                  mediaChangedMessage, "none"))
                /\ bcast' = Broadcast(d.meetingId, mediaChangedMessage, "none")
                /\ published' = publishToMeeting(brokerUp, d.meetingId, mediaChangedMessage)
    /\ UNCHANGED <<status, rooms, inflight, joins, leaves>>
    /\ TrackPreJoin

HandleModerationRemove(c, msg, brokerUp) ==
    /\ Routed(c, msg, "moderation.remove")
    /\ Accept(c, msg, "handleModerationRemove", ModerationCaught(c, msg, brokerUp))
    /\ LET d == data[c]
           targetId == msg.payload.participantId
           targetSocket == getSocket(rooms, d.meetingId, targetId)
           kickedMessage == Response("room.kicked", "none",
                                [by |-> d.participantId, reason |-> "Removed by moderator"],
                                "none")
           r2 == removeFromRoom(rooms, d.meetingId, targetId)
           leftMessage == ParticipantLeftMessage(targetId)
       IN  IF ~InRoom(d)
           THEN /\ sent' = <<>>
                /\ published' = <<>>
                /\ bcast' = <<>>
                /\ UNCHANGED <<rooms, leaves>>
           ELSE IF ~MayModerate(d.role)
           THEN /\ sent' = Deliver(ErrorTo(c, msg.requestId, "Insufficient permissions"))
                /\ published' = <<>>
                /\ bcast' = <<>>
                /\ UNCHANGED <<rooms, leaves>>
           ELSE IF ~HasPayload(msg)
           THEN \* message.payload! is undefined; the catch only logs
                /\ sent' = <<>>
                /\ published' = <<>>
                /\ bcast' = <<>>
                /\ UNCHANGED <<rooms, leaves>>
           ELSE IF targetSocket = "none"
           THEN /\ sent' = <<>>
                /\ published' = <<>>
                /\ bcast' = <<>>
                /\ UNCHANGED <<rooms, leaves>>
           ELSE /\ rooms' = r2
                /\ leaves' = [leaves EXCEPT ![d.meetingId] = @ + 1]
                /\ sent' = Deliver(SendTo(targetSocket, kickedMessage)
                               \o broadcastToRoom(r2, data, d.meetingId, leftMessage, "none"))
                /\ bcast' = Broadcast(d.meetingId, leftMessage, "none")
                /\ published' = publishToMeeting(brokerUp, d.meetingId, leftMessage)
    /\ UNCHANGED <<status, data, inflight, joins>>
    /\ TrackPreJoin

----------------------------------------------------------------------------
(* handleRTCSignal *)

\* sdp and candidate are opaque to the gateway; one offer stands for them.
RTCSignalMessages ==
    {Msg("rtc.signal", rid, pl) :
        rid \in RequestIds,
        pl \in {[to |-> p, type |-> "offer", sdp |-> "sdp"] : p \in ParticipantIds}
               \cup {NoPayload}}

\* handleRTCSignal as it would be if it answered a missing target with an
\* error.
HandleRTCSignal_ErrorOnMiss(c, msg) ==
    /\ Routed(c, msg, "rtc.signal")
    /\ Accept(c, msg, "handleRTCSignal", InRoom(data[c]) /\ ~HasPayload(msg))
    /\ LET d == data[c]
           targetSocket == getSocket(rooms, d.meetingId, msg.payload.to)
           signalMessage == Response("rtc.signal", "none",
                                [from |-> d.participantId, type |-> msg.payload.type,
                                 sdp |-> msg.payload.sdp], "none")
       IN  IF ~InRoom(d)
           THEN sent' = Deliver(ErrorTo(c, msg.requestId, "Not in a room"))
           ELSE IF ~HasPayload(msg)
           THEN sent' = <<>>
           ELSE IF targetSocket = "none"
           THEN sent' = Deliver(ErrorTo(c, msg.requestId, "Peer not found"))
           ELSE sent' = Deliver(SendTo(targetSocket, signalMessage))
    /\ published' = <<>>
    /\ bcast' = <<>>
    /\ UNCHANGED <<status, data, rooms, inflight, joins, leaves>>
    /\ TrackPreJoin

\* handleRTCSignal is not async: it runs to its end in one step.
HandleRTCSignal(c, msg) ==
    /\ Routed(c, msg, "rtc.signal")
    /\ Accept(c, msg, "handleRTCSignal", InRoom(data[c]) /\ ~HasPayload(msg))
    /\ LET d == data[c]
           targetSocket == getSocket(rooms, d.meetingId, msg.payload.to)
           signalMessage == Response("rtc.signal", "none",
                                [from |-> d.participantId, type |-> msg.payload.type,
                                 sdp |-> msg.payload.sdp], "none")
       IN  IF ~InRoom(d)
           THEN sent' = Deliver(ErrorTo(c, msg.requestId, "Not in a room"))
           ELSE IF ~HasPayload(msg)
           THEN \* message.payload! is undefined; the catch only logs
                sent' = <<>>
           ELSE IF targetSocket = "none"
           THEN sent' = <<>>
           ELSE sent' = Deliver(SendTo(targetSocket, signalMessage))
    /\ published' = <<>>
    /\ bcast' = <<>>
    /\ UNCHANGED <<status, data, rooms, inflight, joins, leaves>>
    /\ TrackPreJoin

----------------------------------------------------------------------------
(* handleMediaUpdate *)

\* Partial<MediaState>
MediaPatches == {[mic |-> "off"], [cam |-> "on", screen |-> "on"]}

MediaUpdateMessages ==
    {Msg("media.update", rid, pl) : rid \in RequestIds, pl \in MediaPatches \cup {NoPayload}}

\* { ...mediaState, ...patch }; spreading an undefined patch adds nothing.
MergeMedia(mediaState, patch) ==
    IF patch = NoPayload THEN mediaState
    ELSE [k \in DOMAIN mediaState |-> IF k \in DOMAIN patch THEN patch[k] ELSE mediaState[k]]

HandleMediaUpdate(c, msg, brokerUp) ==
    /\ Routed(c, msg, "media.update")
    /\ Accept(c, msg, "handleMediaUpdate", InRoom(data[c]) /\ ~brokerUp)
    /\ LET d == data[c]
           d2 == IF d.mediaState # NoMedia
                 THEN [data EXCEPT ![c].mediaState = MergeMedia(@, msg.payload)]
                 ELSE data
           mediaChangedMessage == MediaChangedMessage(d.participantId, msg.payload)
       IN  IF ~InRoom(d)
           THEN /\ sent' = Deliver(ErrorTo(c, msg.requestId, "Not in a room"))
                /\ published' = <<>>
                /\ bcast' = <<>>
                /\ UNCHANGED data
           ELSE /\ data' = d2
                /\ sent' = Deliver(broadcastToRoom(rooms, d2, d.meetingId,
                                                   mediaChangedMessage, d.participantId))
                /\ bcast' = Broadcast(d.meetingId, mediaChangedMessage, d.participantId)
                /\ published' = publishToMeeting(brokerUp, d.meetingId, mediaChangedMessage)
    /\ UNCHANGED <<status, rooms, inflight, joins, leaves>>
    /\ TrackPreJoin

----------------------------------------------------------------------------
(* handleHandRaise, handleHandLower, handleReactionSend *)

HandMessages(type) == {Msg(type, rid, NoPayload) : rid \in RequestIds}

ReactionSendMessages ==
    {Msg("reaction.send", rid, pl) :
        rid \in RequestIds, pl \in {[type |-> "clap"], NoPayload}}

HandChangedMessage(participantId, raised) ==
    Response("hand.changed", "none", [participantId |-> participantId, raised |-> raised],
             "none")

\* handleHandRaise (raised = TRUE) and handleHandLower (raised = FALSE) differ
\* in the flag only.
HandleHand(c, msg, raised, brokerUp) ==
    /\ LET d == data[c]
           d2 == [data EXCEPT ![c].handRaised = IF raised THEN "true" ELSE "false"]
           handChangedMessage == HandChangedMessage(d.participantId, raised)
       IN  IF ~InRoom(d)
           THEN /\ sent' = <<>>
                /\ published' = <<>>
                /\ bcast' = <<>>
                /\ UNCHANGED data
           ELSE /\ data' = d2
                /\ sent' = Deliver(broadcastToRoom(rooms, d2, d.meetingId,
                                                   handChangedMessage, "none"))
                /\ bcast' = Broadcast(d.meetingId, handChangedMessage, "none")
                /\ published' = publishToMeeting(brokerUp, d.meetingId, handChangedMessage)
    /\ UNCHANGED <<status, rooms, inflight, joins, leaves>>
    /\ TrackPreJoin

HandleHandRaise(c, msg, brokerUp) ==
    /\ Routed(c, msg, "hand.raise")
    /\ Accept(c, msg, "handleHandRaise", InRoom(data[c]) /\ ~brokerUp)
    /\ HandleHand(c, msg, TRUE, brokerUp)

HandleHandLower(c, msg, brokerUp) ==
    /\ Routed(c, msg, "hand.lower")
    /\ Accept(c, msg, "handleHandLower", InRoom(data[c]) /\ ~brokerUp)
    /\ HandleHand(c, msg, FALSE, brokerUp)

\* ts of reaction.added is a fresh value no handler reads.
HandleReactionSend(c, msg, brokerUp) ==
    /\ Routed(c, msg, "reaction.send")
    /\ Accept(c, msg, "handleReactionSend",
              InRoom(data[c]) /\ (~HasPayload(msg) \/ ~brokerUp))
    /\ LET d == data[c]
           reactionMessage == Response("reaction.added", "none",
                                  [participantId |-> d.participantId,
                                   type |-> msg.payload.type], "none")
       IN  IF ~InRoom(d)
           THEN /\ sent' = <<>>
                /\ published' = <<>>
                /\ bcast' = <<>>
           ELSE IF ~HasPayload(msg)
           THEN \* message.payload! is undefined; the catch only logs
                /\ sent' = <<>>
                /\ published' = <<>>
                /\ bcast' = <<>>
           ELSE /\ sent' = Deliver(broadcastToRoom(rooms, data, d.meetingId,
                                                   reactionMessage, "none"))
                /\ bcast' = Broadcast(d.meetingId, reactionMessage, "none")
                /\ published' = publishToMeeting(brokerUp, d.meetingId, reactionMessage)
    /\ UNCHANGED <<status, data, rooms, inflight, joins, leaves>>
    /\ TrackPreJoin

----------------------------------------------------------------------------
(* handleLobbyAdmit, handleLobbyReject *)

LobbyMessages(type) ==
    {Msg(type, rid, pl) :
        rid \in RequestIds,
        pl \in {[participantId |-> p] : p \in ParticipantIds} \cup {NoPayload}}

\* handleLobbyAdmit (admitted = TRUE) and handleLobbyReject (admitted = FALSE)
\* differ in the flag and in the text of the error.
HandleLobby(c, msg, admitted) ==
    /\ LET d == data[c]
           targetSocket == getSocket(rooms, d.meetingId, msg.payload.participantId)
           resultMessage == Response("lobby.result", "none", [admitted |-> admitted], "none")
       IN  IF d.meetingId = "none" \/ d.role # "host"
           THEN sent' = Deliver(ErrorTo(c, msg.requestId,
                            IF admitted THEN "Only hosts can admit participants"
                            ELSE "Only hosts can reject participants"))
           ELSE IF ~HasPayload(msg)
           THEN \* message.payload! is undefined; the catch only logs
                sent' = <<>>
           ELSE IF targetSocket = "none"
           THEN sent' = <<>>
           ELSE sent' = Deliver(SendTo(targetSocket, resultMessage))
    /\ published' = <<>>
    /\ bcast' = <<>>
    /\ UNCHANGED <<status, data, rooms, inflight, joins, leaves>>
    /\ TrackPreJoin

LobbyCaught(c, msg) ==
    data[c].meetingId # "none" /\ data[c].role = "host" /\ ~HasPayload(msg)

HandleLobbyAdmit(c, msg) ==
    /\ Routed(c, msg, "lobby.admit")
    /\ Accept(c, msg, "handleLobbyAdmit", LobbyCaught(c, msg))
    /\ HandleLobby(c, msg, TRUE)

HandleLobbyReject(c, msg) ==
    /\ Routed(c, msg, "lobby.reject")
    /\ Accept(c, msg, "handleLobbyReject", LobbyCaught(c, msg))
    /\ HandleLobby(c, msg, FALSE)

----------------------------------------------------------------------------
(* The gateway *)

InFlight == 1..(MaxMessages + MaxRoomMessages)

\* A step of the gateway on a node that runs alone: the broker has no
\* subscriber to hand a publication to, and no meeting code is involved.
Frame == UNCHANGED <<channel, code, verdict, announcedLeft, invite, participants, calls>>

Next ==
    \/ \E c \in Conns : Open(c) /\ Frame
    \/ \E c \in Conns : Close(c) /\ Frame
    \/ \E c \in Conns : MalformedMessage(c) /\ Frame
    \/ \E c \in Conns : \E msg \in Messages(c) : NotAuthenticated(c, msg) /\ Frame
    \/ \E c \in Conns : \E msg \in Messages(c) : UnknownType(c, msg) /\ Frame
    \/ \E c \in Conns : \E msg \in Messages(c) : HandleAuthenticate(c, msg) /\ Frame
    \/ \E c \in Conns, i \in InFlight : AuthenticateVerified(c, i) /\ Frame
    \/ \E c \in Conns : \E msg \in Messages(c) : HandleRoomJoin(c, msg) /\ Frame
    \/ \E c \in Conns, i \in InFlight, dbUp \in BOOLEAN, brokerUp \in BOOLEAN :
          ParticipantFound(c, i, dbUp, brokerUp) /\ Frame
    \/ \E c \in Conns, i \in InFlight : JoinPublishFailed(c, i) /\ Frame
    \/ \E c \in Conns : \E msg \in Messages(c) : HandleRoomLeave(c, msg) /\ Frame
    \/ \E c \in Conns, i \in InFlight, dbUp \in BOOLEAN, brokerUp \in BOOLEAN :
          LeftAtUpdated(c, i, dbUp, brokerUp) /\ Frame
    \/ \E c \in Conns, i \in InFlight : LeavePublished(c, i) /\ Frame
    \/ \E c \in Conns, brokerUp \in BOOLEAN : \E msg \in Messages(c) :
          HandleChatSend(c, msg, brokerUp) /\ Frame
    \/ \E c \in Conns, brokerUp \in BOOLEAN : \E msg \in Messages(c) :
          HandleModerationMute(c, msg, brokerUp) /\ Frame
    \/ \E c \in Conns, brokerUp \in BOOLEAN : \E msg \in Messages(c) :
          HandleModerationRemove(c, msg, brokerUp) /\ Frame

\* The gateway from construction: no connection yet.
Spec == Init /\ [][Next]_vars

\* Every connection has been opened and has authenticated as u1 (each
\* connection reaches this state under Spec by open and auth.authenticate).
InitRoom ==
    /\ status = [c \in Conns |-> "open"]
    /\ data = [c \in Conns |-> [NewContext EXCEPT !.authenticated = TRUE, !.userId = "u1"]]
    /\ rooms = [m \in {} |-> EmptyRoom]
    /\ inflight = [c \in Conns |-> <<>>]
    /\ sent = <<>>
    /\ published = <<>>
    /\ bcast = <<>>
    /\ event = Event("init", "none", NoMsg, "none", FALSE)
    /\ budget = MaxRoomMessages
    /\ joins = [m \in Meetings |-> 0]
    /\ leaves = [m \in Meetings |-> 0]
    /\ preJoin = NoPreJoin
    /\ channel = <<>>
    /\ code = NoCode
    /\ verdict = "none"
    /\ announcedLeft = {}
    /\ invite = "pending"
    /\ participants = 0
    /\ calls = NoCalls

\* Authenticated clients that join, chat, leave and disconnect.
NextRoom ==
    \/ \E c \in Conns : Close(c) /\ Frame
    \/ \E c \in Conns : \E msg \in RoomMessages(c) : HandleRoomJoin(c, msg) /\ Frame
    \/ \E c \in Conns, i \in InFlight, dbUp \in BOOLEAN, brokerUp \in BOOLEAN :
          ParticipantFound(c, i, dbUp, brokerUp) /\ Frame
    \/ \E c \in Conns, i \in InFlight : JoinPublishFailed(c, i) /\ Frame
    \/ \E c \in Conns : \E msg \in RoomMessages(c) : HandleRoomLeave(c, msg) /\ Frame
    \/ \E c \in Conns, i \in InFlight, dbUp \in BOOLEAN, brokerUp \in BOOLEAN :
          LeftAtUpdated(c, i, dbUp, brokerUp) /\ Frame
    \/ \E c \in Conns, i \in InFlight : LeavePublished(c, i) /\ Frame
    \/ \E c \in Conns, brokerUp \in BOOLEAN : \E msg \in RoomMessages(c) :
          HandleChatSend(c, msg, brokerUp) /\ Frame

SpecRoom == InitRoom /\ [][NextRoom]_vars

\* Authenticated clients that join, moderate and disconnect.
NextModeration ==
    \/ \E c \in Conns : Close(c) /\ Frame
    \/ \E c \in Conns : \E msg \in ModerationAlphabet(c) : HandleRoomJoin(c, msg) /\ Frame
    \/ \E c \in Conns, i \in InFlight, dbUp \in BOOLEAN, brokerUp \in BOOLEAN :
          ParticipantFound(c, i, dbUp, brokerUp) /\ Frame
    \/ \E c \in Conns, i \in InFlight : JoinPublishFailed(c, i) /\ Frame
    \/ \E c \in Conns, brokerUp \in BOOLEAN : \E msg \in ModerationAlphabet(c) :
          HandleModerationMute(c, msg, brokerUp) /\ Frame
    \/ \E c \in Conns, brokerUp \in BOOLEAN : \E msg \in ModerationAlphabet(c) :
          HandleModerationRemove(c, msg, brokerUp) /\ Frame

SpecModeration == InitRoom /\ [][NextModeration]_vars

----------------------------------------------------------------------------
(* Sessions in a room *)

\* The participant a connection joins as in the runs that start in a room.
Home(c) == IF c = "c1" THEN "p1" ELSE "p2"

\* socket.data after auth.authenticate as u1, and after a room.join with the
\* connection's own token on top of it.
AuthenticatedContext == [NewContext EXCEPT !.authenticated = TRUE, !.userId = "u1"]
JoinedContext(c) ==
    JoinMedia(JoinContext(AuthenticatedContext, Participant(Home(c))),
              [mic |-> TRUE, cam |-> FALSE])

\* Every connection is open and authenticated, and each of them either has
\* joined m1 with its own token or has not joined yet (SpecRoom reaches each
\* of these states by room.join).
InitSessions ==
    \E inRoom \in SUBSET Conns :
        /\ status = [c \in Conns |-> "open"]
        /\ data = [c \in Conns |->
                      IF c \in inRoom THEN JoinedContext(c) ELSE AuthenticatedContext]
        /\ rooms = IF inRoom = {} THEN [m \in {} |-> EmptyRoom]
                   ELSE [m \in {"m1"} |->
                            [p \in {Home(c) : c \in inRoom} |->
                                CHOOSE c \in inRoom : Home(c) = p]]
        /\ inflight = [c \in Conns |-> <<>>]
        /\ sent = <<>>
        /\ published = <<>>
        /\ bcast = <<>>
        /\ event = Event("init", "none", NoMsg, "none", FALSE)
        /\ budget = MaxSessionMessages
        /\ joins = [m \in Meetings |-> IF m = "m1" THEN Cardinality(inRoom) ELSE 0]
        /\ leaves = [m \in Meetings |-> 0]
        /\ preJoin = NoPreJoin
        /\ channel = <<>>
        /\ code = NoCode
        /\ verdict = "none"
        /\ announcedLeft = {}
        /\ invite = "pending"
        /\ participants = 0
        /\ calls = NoCalls

\* The messages that make a handler broadcast a room event.
EventMessages(c) ==
    {msg \in WellFormedJoinMessages(c) : Participant(msg.payload.roomToken).meetingId = "m1"}
    \cup RoomLeaveMessages
    \cup {msg \in ChatSendMessages : HasPayload(msg)}
    \cup MediaUpdateMessages
    \cup HandMessages("hand.raise") \cup HandMessages("hand.lower")
    \cup {msg \in ReactionSendMessages : HasPayload(msg)}
    \cup {msg \in ModerationMessages("moderation.mute") : HasPayload(msg)}
    \cup {msg \in ModerationMessages("moderation.remove") : HasPayload(msg)}

\* Sessions that join, leave, disconnect and produce every kind of room event.
NextEvents ==
    \/ \E c \in Conns : Close(c) /\ Frame
    \/ \E c \in Conns : \E msg \in EventMessages(c) : HandleRoomJoin(c, msg) /\ Frame
    \/ \E c \in Conns, i \in InFlight, dbUp \in BOOLEAN, brokerUp \in BOOLEAN :
          ParticipantFound(c, i, dbUp, brokerUp) /\ Frame
    \/ \E c \in Conns, i \in InFlight : JoinPublishFailed(c, i) /\ Frame
    \/ \E c \in Conns : \E msg \in EventMessages(c) : HandleRoomLeave(c, msg) /\ Frame
    \/ \E c \in Conns, i \in InFlight, dbUp \in BOOLEAN, brokerUp \in BOOLEAN :
          LeftAtUpdated(c, i, dbUp, brokerUp) /\ Frame
    \/ \E c \in Conns, i \in InFlight : LeavePublished(c, i) /\ Frame
    \/ \E c \in Conns, brokerUp \in BOOLEAN : \E msg \in EventMessages(c) :
          HandleChatSend(c, msg, brokerUp) /\ Frame
    \/ \E c \in Conns, brokerUp \in BOOLEAN : \E msg \in EventMessages(c) :
          HandleMediaUpdate(c, msg, brokerUp) /\ Frame
    \/ \E c \in Conns, brokerUp \in BOOLEAN : \E msg \in EventMessages(c) :
          HandleHandRaise(c, msg, brokerUp) /\ Frame
    \/ \E c \in Conns, brokerUp \in BOOLEAN : \E msg \in EventMessages(c) :
          HandleHandLower(c, msg, brokerUp) /\ Frame
    \/ \E c \in Conns, brokerUp \in BOOLEAN : \E msg \in EventMessages(c) :
          HandleReactionSend(c, msg, brokerUp) /\ Frame
    \/ \E c \in Conns, brokerUp \in BOOLEAN : \E msg \in EventMessages(c) :
          HandleModerationMute(c, msg, brokerUp) /\ Frame
    \/ \E c \in Conns, brokerUp \in BOOLEAN : \E msg \in EventMessages(c) :
          HandleModerationRemove(c, msg, brokerUp) /\ Frame

SpecEvents == InitSessions /\ [][NextEvents]_vars


\* The types of the messages that are meant for a session in a room.
RoomScopedTypes ==
    {"rtc.signal", "media.update", "chat.send", "reaction.send", "hand.raise",
     "hand.lower", "moderation.mute", "moderation.remove", "lobby.admit", "lobby.reject"}

ScopedMessages(c) ==
    RTCSignalMessages \cup MediaUpdateMessages \cup ChatSendMessages
    \cup ReactionSendMessages
    \cup HandMessages("hand.raise") \cup HandMessages("hand.lower")
    \cup ModerationMessages("moderation.mute") \cup ModerationMessages("moderation.remove")
    \cup LobbyMessages("lobby.admit") \cup LobbyMessages("lobby.reject")

\* Sessions, in a room or not, that send room-scoped messages and disconnect.
NextScoped ==
    \/ \E c \in Conns : Close(c) /\ Frame
    \/ \E c \in Conns : \E msg \in ScopedMessages(c) : HandleRTCSignal(c, msg) /\ Frame
    \/ \E c \in Conns, brokerUp \in BOOLEAN : \E msg \in ScopedMessages(c) :
          HandleMediaUpdate(c, msg, brokerUp) /\ Frame
    \/ \E c \in Conns, brokerUp \in BOOLEAN : \E msg \in ScopedMessages(c) :
          HandleChatSend(c, msg, brokerUp) /\ Frame
    \/ \E c \in Conns, brokerUp \in BOOLEAN : \E msg \in ScopedMessages(c) :
          HandleReactionSend(c, msg, brokerUp) /\ Frame
    \/ \E c \in Conns, brokerUp \in BOOLEAN : \E msg \in ScopedMessages(c) :
          HandleHandRaise(c, msg, brokerUp) /\ Frame
    \/ \E c \in Conns, brokerUp \in BOOLEAN : \E msg \in ScopedMessages(c) :
          HandleHandLower(c, msg, brokerUp) /\ Frame
    \/ \E c \in Conns, brokerUp \in BOOLEAN : \E msg \in ScopedMessages(c) :
          HandleModerationMute(c, msg, brokerUp) /\ Frame
    \/ \E c \in Conns, brokerUp \in BOOLEAN : \E msg \in ScopedMessages(c) :
          HandleModerationRemove(c, msg, brokerUp) /\ Frame
    \/ \E c \in Conns : \E msg \in ScopedMessages(c) : HandleLobbyAdmit(c, msg) /\ Frame
    \/ \E c \in Conns : \E msg \in ScopedMessages(c) : HandleLobbyReject(c, msg) /\ Frame

SpecScoped == InitSessions /\ [][NextScoped]_vars

----------------------------------------------------------------------------
(* Two nodes and the broker *)

\* The gateway modelled above runs on node1; node2 is a second instance of
\* the same program behind the same broker.
Nodes == {"node1", "node2"}

\* The registry of node2: one socket of its own in meeting m1.
PeerRooms == addToRoom([m \in {} |-> EmptyRoom], "m1", "p2", "c3")

NodeRooms(n) == IF n = "node1" THEN rooms ELSE PeerRooms

\* The channels each node's subscriber connection listens on.  redisSub
\* subscribes in subscribeToMeeting alone, and no handler, route or start-up
\* code of the program calls subscribeToMeeting.
Subscriptions == [n \in Nodes |-> {}]

\* messageHandler of subscribeToMeeting, for the callback the README gives
\* it: a message of the subscribed channel is broadcast to the node's local
\* connections in that room and is not published again.
messageHandler(n, subscribed, ch, message) ==
    IF ch = subscribed
    THEN broadcastToRoom(NodeRooms(n), data, ch, message, "none")
    ELSE <<>>

\* What node n sends when the broker hands it a publication.
Relayed(n, publication) ==
    IF \E subscribed \in Subscriptions[n] : subscribed = publication.channel
    THEN messageHandler(n, publication.channel, publication.channel, publication.msg)
    ELSE <<>>

\* A step of node1 with the broker in view: what the step published waits in
\* the channel for the broker to fan it out.
Publish ==
    /\ channel' = channel \o published'
    /\ UNCHANGED <<code, verdict, announcedLeft, invite, participants, calls>>

\* The broker hands the oldest publication to every subscriber of its channel.
BrokerFanOut ==
    /\ channel # <<>>
    /\ LET publication == Head(channel)
       IN  /\ sent' = Deliver(Relayed("node1", publication)) \o Relayed("node2", publication)
           /\ event' = Event("relay", "none", publication.msg, "messageHandler", FALSE)
    /\ channel' = Tail(channel)
    /\ published' = <<>>
    /\ bcast' = <<>>
    /\ UNCHANGED <<status, data, rooms, inflight, budget, joins, leaves, preJoin,
                   code, verdict, announcedLeft, invite, participants, calls>>

RelayMessages(c) ==
    {msg \in WellFormedJoinMessages(c) : Participant(msg.payload.roomToken).meetingId = "m1"}
    \cup ChatSendMessages

\* Authenticated clients of node1 that join and chat, while node2 holds a
\* socket in m1 and the broker fans out what node1 publishes.
NextRelay ==
    \/ \E c \in Conns : \E msg \in RelayMessages(c) : HandleRoomJoin(c, msg) /\ Publish
    \/ \E c \in Conns, i \in InFlight, dbUp \in BOOLEAN, brokerUp \in BOOLEAN :
          ParticipantFound(c, i, dbUp, brokerUp) /\ Publish
    \/ \E c \in Conns, i \in InFlight : JoinPublishFailed(c, i) /\ Publish
    \/ \E c \in Conns, brokerUp \in BOOLEAN : \E msg \in RelayMessages(c) :
          HandleChatSend(c, msg, brokerUp) /\ Publish
    \/ BrokerFanOut

SpecRelay == InitRoom /\ [][NextRelay]_vars

----------------------------------------------------------------------------
(* Meeting codes *)

\* const alphabet = 'abcdefghijklmnopqrstuvwxyz'
alphabet ==
    <<"a", "b", "c", "d", "e", "f", "g", "h", "i", "j", "k", "l", "m",
      "n", "o", "p", "q", "r", "s", "t", "u", "v", "w", "x", "y", "z">>

\* The positions of `alphabet` a run draws from: its first and its last.
Drawn == {1, Len(alphabet)}

\* The characters a client types: a lowercase letter, an uppercase letter
\* and the hyphen.
TypedChars == {"a", "A", "-"}

\* The code unit of a character, as the regular expression compares it.
RECURSIVE IndexOf(_, _, _)
IndexOf(seq, x, i) ==
    IF i > Len(seq) THEN 0 ELSE IF seq[i] = x THEN i ELSE IndexOf(seq, x, i + 1)
CodeUnit(ch) ==
    CASE ch = "-" -> 45
      [] ch = "A" -> 65
      [] OTHER    -> 96 + IndexOf(alphabet, ch, 1)

\* customAlphabet(alphabet, size)(): `size` characters of the alphabet.
customAlphabet(size) == {[k \in 1..size |-> alphabet[i[k]]] : i \in [1..size -> Drawn]}

\* The pattern of validateMeetingCode, piece by piece: a range of code units
\* and the number of characters it takes.
Regex ==
    <<[lo |-> "a", hi |-> "z", times |-> 3], [lo |-> "-", hi |-> "-", times |-> 1],
      [lo |-> "a", hi |-> "z", times |-> 4], [lo |-> "-", hi |-> "-", times |-> 1],
      [lo |-> "a", hi |-> "z", times |-> 3]>>

\* Matching the pieces from position pos on: the position after the match,
\* or 0 when a piece does not match.
RECURSIVE Match(_, _, _)
Match(pieces, chars, pos) ==
    IF pieces = <<>> THEN pos
    ELSE LET piece == Head(pieces)
             last == pos + piece.times - 1
         IN  IF /\ last <= Len(chars)
                /\ \A k \in pos..last :
                       CodeUnit(chars[k]) \in CodeUnit(piece.lo)..CodeUnit(piece.hi)
             THEN Match(Tail(pieces), chars, last + 1)
             ELSE 0

\* validateMeetingCode as it would be if the pattern did not end in `$`.
validateMeetingCode_Unanchored(chars) == Match(Regex, chars, 1) # 0

\* regex.test(code): `^` starts the match at the first character and `$`
\* ends it after the last.
validateMeetingCode(chars) == Match(Regex, chars, 1) = Len(chars) + 1

Count(chars, ch) == Cardinality({k \in DOMAIN chars : chars[k] = ch})

\* generateMeetingCode returns `${part1}-${part2}-${part3}`.
GenerateMeetingCode ==
    /\ code = NoCode
    /\ \E part1 \in customAlphabet(3), part2 \in customAlphabet(4),
          part3 \in customAlphabet(3) :
           code' = [origin |-> "generated",
                    chars |-> part1 \o <<"-">> \o part2 \o <<"-">> \o part3]
    /\ UNCHANGED <<status, data, rooms, inflight, sent, published, bcast, event,
                   budget, joins, leaves, preJoin, channel, verdict,
                   announcedLeft, invite, participants, calls>>

\* A client types one more character of a code.
TypeChar(ch) ==
    /\ code.origin # "generated"
    /\ verdict = "none"
    /\ Len(code.chars) < MaxCodeLen
    /\ code' = [origin |-> "typed", chars |-> Append(code.chars, ch)]
    /\ Count(code'.chars, "A") <= MaxUpper
    /\ Count(code'.chars, "-") <= MaxHyphens
    /\ UNCHANGED <<status, data, rooms, inflight, sent, published, bcast, event,
                   budget, joins, leaves, preJoin, channel, verdict,
                   announcedLeft, invite, participants, calls>>

\* The code is handed to validateMeetingCode.
ValidateMeetingCode ==
    /\ code # NoCode
    /\ verdict = "none"
    /\ verdict' = IF validateMeetingCode(code.chars) THEN "accepted" ELSE "rejected"
    /\ UNCHANGED <<status, data, rooms, inflight, sent, published, bcast, event,
                   budget, joins, leaves, preJoin, channel, code,
                   announcedLeft, invite, participants, calls>>

NextCode ==
    \/ GenerateMeetingCode
    \/ \E ch \in TypedChars : TypeChar(ch)
    \/ ValidateMeetingCode

SpecCode == Init /\ [][NextCode]_vars

----------------------------------------------------------------------------
(* Leaving, being removed and disconnecting *)

\* announcedLeft follows the steps: a broadcast of participant.left adds its
\* meeting and participantId, and a join that completes takes the joiner's out.
TrackLeft ==
    announcedLeft' =
        IF bcast' # <<>> /\ bcast'[1].msg.type = "participant.left"
        THEN announcedLeft \cup {<<bcast'[1].meetingId, bcast'[1].msg.payload.participantId>>}
        ELSE IF event'.handler = "handleRoomJoin" /\ joins' # joins
        THEN announcedLeft \ {<<data'[event'.conn].meetingId,
                                data'[event'.conn].participantId>>}
        ELSE announcedLeft

FrameLeft ==
    /\ TrackLeft
    /\ UNCHANGED <<channel, code, verdict, invite, participants, calls>>

LeftMessages(c) ==
    {msg \in WellFormedJoinMessages(c) : Participant(msg.payload.roomToken).meetingId = "m1"}
    \cup RoomLeaveMessages
    \cup {msg \in ModerationMessages("moderation.remove") : HasPayload(msg)}

\* Sessions that join, leave, remove each other and disconnect.
NextLeft ==
    \/ \E c \in Conns : Close(c) /\ FrameLeft
    \/ \E c \in Conns : \E msg \in LeftMessages(c) : HandleRoomJoin(c, msg) /\ FrameLeft
    \/ \E c \in Conns, i \in InFlight, dbUp \in BOOLEAN, brokerUp \in BOOLEAN :
          ParticipantFound(c, i, dbUp, brokerUp) /\ FrameLeft
    \/ \E c \in Conns, i \in InFlight : JoinPublishFailed(c, i) /\ FrameLeft
    \/ \E c \in Conns : \E msg \in LeftMessages(c) : HandleRoomLeave(c, msg) /\ FrameLeft
    \/ \E c \in Conns, i \in InFlight, dbUp \in BOOLEAN, brokerUp \in BOOLEAN :
          LeftAtUpdated(c, i, dbUp, brokerUp) /\ FrameLeft
    \/ \E c \in Conns, i \in InFlight : LeavePublished(c, i) /\ FrameLeft
    \/ \E c \in Conns, brokerUp \in BOOLEAN : \E msg \in LeftMessages(c) :
          HandleModerationRemove(c, msg, brokerUp) /\ FrameLeft

SpecLeft == InitSessions /\ [][NextLeft]_vars

----------------------------------------------------------------------------
(* InvitesService *)

\* The invite ids a request may name: the id of the one row, and an id no
\* row has.
InviteIds == {"i1", "missing"}

Call(op, inviteId, at, result) ==
    [op |-> op, inviteId |-> inviteId, at |-> at, result |-> result]

\* What a step of InvitesService leaves alone.
ServiceFrame ==
    UNCHANGED <<status, data, rooms, inflight, sent, published, bcast, event, budget,
                joins, leaves, preJoin, channel, code, verdict, announcedLeft>>

\* accept(inviteId, userId) or decline(inviteId) is called and awaits findById.
ServiceCalled(q, op, inviteId) ==
    /\ calls[q].at = "idle"
    /\ calls' = [calls EXCEPT ![q] = Call(op, inviteId, "findById", "none")]
    /\ UNCHANGED <<invite, participants>>
    /\ ServiceFrame

\* findById has resolved: no row throws notFound, a row that is not pending
\* throws alreadyProcessed, and a pending row sends the call on to its update.
InviteFound(q) ==
    /\ calls[q].at = "findById"
    /\ calls' = [calls EXCEPT ![q] =
           IF @.inviteId # "i1" THEN Call(@.op, @.inviteId, "done", "notFound")
           ELSE IF invite # "pending"
           THEN Call(@.op, @.inviteId, "done", "alreadyProcessed")
           ELSE Call(@.op, @.inviteId, "update", "none")]
    /\ UNCHANGED <<invite, participants>>
    /\ ServiceFrame

\* The UPDATE of the invite's status has run; decline returns, accept goes on
\* to its insert.
InviteUpdated(q) ==
    /\ calls[q].at = "update"
    /\ invite' = IF calls[q].op = "accept" THEN "accepted" ELSE "declined"
    /\ calls' = [calls EXCEPT ![q] =
           IF @.op = "accept" THEN Call(@.op, @.inviteId, "insert", "none")
           ELSE Call(@.op, @.inviteId, "done", "declined")]
    /\ UNCHANGED participants
    /\ ServiceFrame

\* The INSERT into participants has run and accept returns the row.
ParticipantInserted(q) ==
    /\ calls[q].at = "insert"
    /\ participants' = participants + 1
    /\ calls' = [calls EXCEPT ![q] = Call(@.op, @.inviteId, "done", "participant")]
    /\ UNCHANGED invite
    /\ ServiceFrame

\* Requests that accept or decline the invite, each statement of the service
\* taking its turn at the database.
NextInvites ==
    \/ \E q \in Requests, op \in {"accept", "decline"}, inviteId \in InviteIds :
          ServiceCalled(q, op, inviteId)
    \/ \E q \in Requests : InviteFound(q)
    \/ \E q \in Requests : InviteUpdated(q)
    \/ \E q \in Requests : ParticipantInserted(q)

SpecInvites == Init /\ [][NextInvites]_vars
----------------------------------------------------------------------------
(* Properties *)

\* The connections registered in meeting m, and how often `sends` delivers
\* message `message` to connection s.
RegisteredIn(r, m) == IF m \in DOMAIN r THEN {r[m][p] : p \in DOMAIN r[m]} ELSE {}
Deliveries(sends, s, message) ==
    Cardinality({i \in DOMAIN sends : sends[i].to = s /\ sends[i].msg = message})

\* C1: a message other than auth.authenticate that arrives on a socket whose
\* `authenticated` flag is false is answered by exactly one error carrying the
\* message's requestId, to the sender only; no handler runs, and socket.data
\* and the room registry stay as they were.
UnauthenticatedIsRejected ==
    [][(/\ event'.op = "message"
        /\ event'.msg.type \notin {"none", "auth.authenticate"}
        /\ ~data[event'.conn].authenticated)
       => /\ sent' = ErrorTo(event'.conn, event'.msg.requestId, "Not authenticated")
          /\ event'.handler = "none"
          /\ inflight' = inflight
          /\ data' = data
          /\ rooms' = rooms
          /\ published' = <<>>
          /\ bcast' = <<>>]_vars

\* An unauthenticated socket has sent room.join and has been answered.
UnauthenticatedJoinRejected ==
    /\ event.op = "message"
    /\ event.msg.type = "room.join"
    /\ HasPayload(event.msg)
    /\ ~data[event.conn].authenticated
    /\ sent = ErrorTo(event.conn, event.msg.requestId, "Not authenticated")

\* C2: when a connection closes while its session is in a room, every other
\* session registered in that meeting is sent participant.left with the
\* closed participant's id exactly once.
CloseAnnouncesLeft ==
    [][(event'.op = "close" /\ InRoom(data[event'.conn]))
       => \A s \in RegisteredIn(rooms, data[event'.conn].meetingId) \ {event'.conn} :
             status[s] = "open"
             => Deliveries(sent', s,
                    ParticipantLeftMessage(data[event'.conn].participantId)) = 1]_vars

\* C3: once a connection is closed and none of its handlers is still in
\* flight, the room registry holds no entry that maps to it.
ClosedConnectionNotRegistered ==
    \A c \in Conns :
        (status[c] = "closed" /\ inflight[c] = <<>>)
        => \A m \in DOMAIN rooms : c \notin RegisteredIn(rooms, m)

\* C4: the number of sessions the registry holds for a meeting is the number
\* of joins minus the number of completed leaves, and is never negative.
CountIsJoinsMinusLeaves ==
    \A m \in Meetings :
        LET count == IF m \in DOMAIN rooms THEN Cardinality(DOMAIN rooms[m]) ELSE 0
        IN  count = joins[m] - leaves[m] /\ joins[m] - leaves[m] >= 0

\* C5: one broadcastToRoom call delivers its message exactly once to every
\* open connection registered in the meeting whose participant is not the
\* excluded one, never to the excluded one, and to no connection twice.
BroadcastOncePerSession ==
    bcast # <<>>
    => \A s \in RegisteredIn(rooms, bcast[1].meetingId) :
           status[s] = "open"
           => Deliveries(sent, s, bcast[1].msg) =
                  IF bcast[1].exclude # "none" /\ data[s].participantId = bcast[1].exclude
                  THEN 0 ELSE 1

\* C6: a room.join that succeeds, followed immediately by a room.leave of the
\* same connection, leaves the room registry as it was before the join (a
\* meeting that had no other session has no entry and lists no socket).
JoinLeaveRestoresRegistry ==
    (/\ preJoin.conn # "none"
     /\ event.op = "resume"
     /\ event.handler = "handleRoomLeave"
     /\ event.conn = preJoin.conn
     /\ bcast # <<>>)
    => /\ rooms = preJoin.rooms
       /\ (bcast[1].meetingId \notin DOMAIN preJoin.rooms
           => getRoomSockets(rooms, bcast[1].meetingId) = <<>>)

MuteOfAbsentTargetDoesNothing ==
    [][(/\ event'.op = "message"
        /\ event'.msg.type = "moderation.mute"
        /\ HasPayload(event'.msg)
        /\ InRoom(data[event'.conn])
        /\ data[event'.conn].role \in {"host", "cohost"}
        /\ ~(/\ data[event'.conn].meetingId \in DOMAIN rooms
             /\ event'.msg.payload.participantId
                    \in DOMAIN rooms[data[event'.conn].meetingId]))
       => /\ ~event'.caught
          /\ sent' = <<>>
          /\ bcast' = <<>>
          /\ published' = <<>>
          /\ \A s \in Conns : data'[s].mediaState = data[s].mediaState]_vars

\* A host registered in its meeting has muted a participant that is registered
\* in another meeting only.
MuteOfAbsentTargetHandled ==
    /\ event.op = "message"
    /\ event.msg.type = "moderation.mute"
    /\ event.handler = "handleModerationMute"
    /\ HasPayload(event.msg)
    /\ InRoom(data[event.conn])
    /\ data[event.conn].role \in {"host", "cohost"}
    /\ event.conn \in RegisteredIn(rooms, data[event.conn].meetingId)
    /\ event.msg.payload.participantId \notin DOMAIN rooms[data[event.conn].meetingId]
    /\ \E m \in DOMAIN rooms : event.msg.payload.participantId \in DOMAIN rooms[m]
    /\ sent = <<>>

\* C9: when an in-room host or cohost mutes a participant registered in its
\* meeting, the target is sent moderation.muted with `by` the sender's
\* participantId, the target's stored mic state is off afterwards, and every
\* session of the meeting, sender and target included, is sent media.changed
\* for the target with patch mic off.
MuteReachesTargetAndRoom ==
    [][(/\ event'.op = "message"
        /\ event'.msg.type = "moderation.mute"
        /\ HasPayload(event'.msg)
        /\ InRoom(data[event'.conn])
        /\ data[event'.conn].role \in {"host", "cohost"}
        /\ data[event'.conn].meetingId \in DOMAIN rooms
        /\ event'.msg.payload.participantId
               \in DOMAIN rooms[data[event'.conn].meetingId])
       => LET sender == event'.conn
              meetingId == data[sender].meetingId
              targetId == event'.msg.payload.participantId
              target == rooms[meetingId][targetId]
              changed == MediaChangedMessage(targetId, [mic |-> "off"])
          IN  /\ Deliveries(sent', target,
                     Response("moderation.muted", "none",
                              [by |-> data[sender].participantId], "none")) = 1
              /\ data'[target].mediaState.mic = "off"
              /\ \A s \in RegisteredIn(rooms, meetingId) \cup {sender, target} :
                     Deliveries(sent', s, changed) = 1]_vars

\* C10: moderation.mute and moderation.remove from an in-room guest are
\* answered by an error to the sender; nothing is broadcast or published, no
\* session's state changes (the target's media state included) and the
\* registry stays as it is.
GuestMayNotModerate ==
    [][(/\ event'.op = "message"
        /\ event'.msg.type \in {"moderation.mute", "moderation.remove"}
        /\ InRoom(data[event'.conn])
        /\ data[event'.conn].role = "guest")
       => /\ sent' = ErrorTo(event'.conn, event'.msg.requestId, "Insufficient permissions")
          /\ bcast' = <<>>
          /\ published' = <<>>
          /\ data' = data
          /\ rooms' = rooms
          /\ inflight' = inflight]_vars

\* A guest has tried to remove the host while both are registered in the
\* meeting, and has been answered.
GuestRemoveRejected ==
    /\ event.op = "message"
    /\ event.msg.type = "moderation.remove"
    /\ HasPayload(event.msg)
    /\ InRoom(data[event.conn])
    /\ data[event.conn].role = "guest"
    /\ getSocket(rooms, data[event.conn].meetingId, event.msg.payload.participantId)
           \notin {"none", event.conn}
    /\ sent = ErrorTo(event.conn, event.msg.requestId, "Insufficient permissions")

\* C11: when a session joins a meeting, its room.joined lists as peers
\* exactly the other connections registered in that meeting (none for the
\* first), each of them is sent participant.joined with the joiner's
\* participantId exactly once, and the joiner is not sent it.
JoinListsPeersAndAnnounces ==
    (/\ event.op = "resume"
     /\ event.handler = "handleRoomJoin"
     /\ bcast # <<>>
     /\ status[event.conn] = "open")
    => LET joiner == event.conn
           others == RegisteredIn(rooms, bcast[1].meetingId) \ {joiner}
           announced == bcast[1].msg
       IN  /\ announced.type = "participant.joined"
           /\ announced.payload.participantId = data[joiner].participantId
           /\ \E i \in DOMAIN sent :
                  /\ sent[i].to = joiner
                  /\ sent[i].msg.type = "room.joined"
                  /\ LET peers == sent[i].msg.payload.peers
                     IN  /\ Len(peers) = Cardinality(others)
                         /\ {peers[k].participantId : k \in DOMAIN peers}
                                = {data[s].participantId : s \in others}
           /\ \A s \in others : status[s] = "open" => Deliveries(sent, s, announced) = 1
           /\ Deliveries(sent, joiner, announced) = 0

\* C12 as stated: every room event is both broadcast to the meeting's local
\* sessions and published to the meeting's channel, or neither.
BroadcastAndPublishTogether ==
    /\ bcast # <<>>
       => published = <<[channel |-> bcast[1].meetingId, msg |-> bcast[1].msg]>>
    /\ published # <<>> => bcast # <<>>

\* C12, amended: a handler that broadcasts a room event hands the same event
\* to the meeting's channel in the same run unless the broker rejects the
\* publication (the handler's catch runs, or the join is left waiting for the
\* rejection), and nothing is published that was not broadcast.
BroadcastAndPublishUnlessRejected ==
    /\ bcast # <<>>
       => \/ published = <<[channel |-> bcast[1].meetingId, msg |-> bcast[1].msg]>>
          \/ /\ published = <<>>
             /\ \/ event.caught
                \/ \E i \in DOMAIN inflight[event.conn] :
                       inflight[event.conn][i].await = "join.publish"
    /\ published # <<>> => bcast # <<>>

\* A reaction has been broadcast to the room and published on its channel.
RoomEventPublished ==
    /\ bcast # <<>>
    /\ bcast[1].msg.type = "reaction.added"
    /\ published = <<[channel |-> bcast[1].meetingId, msg |-> bcast[1].msg]>>
    /\ \E s \in Conns : s # event.conn /\ Deliveries(sent, s, bcast[1].msg) = 1


\* The handlers of a socket that wait on `await`.
Awaiting(handlers, await) ==
    Cardinality({i \in DOMAIN handlers : handlers[i].await = await})

\* C13: a publication the broker rejects changes nothing of the handler's
\* local outcome: the join whose publication was rejected sends no error after
\* its room.joined, and the leave whose publication was rejected goes on, as
\* after a publication that resolved, to answer room.left and clear the room
\* fields.
PublishFailureIsNotSurfaced ==
    [][LET c == event'.conn
       IN  /\ (/\ event'.op = "resume"
               /\ event'.handler = "handleRoomJoin"
               /\ Awaiting(inflight'[c], "join.publish")
                      < Awaiting(inflight[c], "join.publish"))
              => \A k \in DOMAIN sent' : sent'[k].msg.type # "error"
           /\ (/\ event'.op = "resume"
               /\ event'.handler = "handleRoomLeave"
               /\ bcast' # <<>>
               /\ published' = <<>>)
              => Awaiting(inflight'[c], "leave.publish")
                     > Awaiting(inflight[c], "leave.publish")]_vars

\* The sockets of node2 in a meeting.
PeerSockets(meetingId) == RegisteredIn(PeerRooms, meetingId)

\* C14: when the broker fans out an event that node1 broadcast and published
\* for a meeting, node2 sends it once to each of its local connections in
\* that meeting, nothing is published again, and node1's connections are not
\* sent the event a second time.
RelayReachesTheOtherNode ==
    [][(channel # <<>> /\ event'.op = "relay")
       => LET publication == Head(channel)
          IN  /\ \A s \in PeerSockets(publication.channel) :
                     Deliveries(sent', s, publication.msg) = 1
              /\ published' = <<>>
              /\ \A s \in Conns : Deliveries(sent', s, publication.msg) = 0]_vars

\* The registrations of a socket: the (meeting, participantId) pairs under
\* which the registry holds it.
Registrations(r, s) ==
    {mp \in (DOMAIN r) \X ParticipantIds : mp[2] \in DOMAIN r[mp[1]] /\ r[mp[1]][mp[2]] = s}

\* C15: a connection is registered in at most one meeting and under at most
\* one participantId.
OneRegistrationPerConnection ==
    \A s \in Conns : Cardinality(Registrations(rooms, s)) <= 1

\* C16: the step in which moderation.remove takes a local target out of the
\* room leaves the target's session with its room fields cleared, and a
\* room-scoped message of a session that is registered in no room, as the
\* removed target is, gets nothing broadcast and nothing published.
RemovedTargetIsOutOfTheRoom ==
    [][/\ (/\ event'.handler = "handleModerationRemove"
           /\ bcast' # <<>>)
          => \A s \in RegisteredIn(rooms, bcast'[1].meetingId)
                      \ RegisteredIn(rooms', bcast'[1].meetingId) :
                 /\ data'[s].meetingId = "none"
                 /\ data'[s].participantId = "none"
       /\ (/\ event'.op = "message"
           /\ event'.msg.type \in RoomScopedTypes
           /\ Registrations(rooms, event'.conn) = {})
          => (bcast' = <<>> /\ published' = <<>>)]_vars

\* C17: a room-scoped message from an authenticated session that is not in
\* a room is answered by one error to the sender and by nothing else: the
\* connection stays open, nothing is broadcast or published, and the sessions
\* and the registry stay as they were.
OutOfRoomIsAnsweredWithError ==
    [][(/\ event'.op = "message"
        /\ event'.msg.type \in RoomScopedTypes
        /\ data[event'.conn].authenticated
        /\ ~InRoom(data[event'.conn]))
       => /\ Len(sent') = 1
          /\ sent'[1].to = event'.conn
          /\ sent'[1].msg.type = "error"
          /\ status'[event'.conn] = "open"
          /\ bcast' = <<>>
          /\ published' = <<>>
          /\ data' = data
          /\ rooms' = rooms]_vars

\* C18: when a handler's catch runs on an open connection, the sender is sent
\* an error response, the connection stays open, and no other session's
\* context or registration changes.
HandlerFailureIsAnswered ==
    [][(/\ event'.op \in {"message", "resume"}
        /\ event'.caught
        /\ status[event'.conn] = "open")
       => LET c == event'.conn
          IN  /\ \E k \in DOMAIN sent' :
                     sent'[k].to = c /\ sent'[k].msg.type = "error"
              /\ status'[c] = "open"
              /\ \A s \in Conns \ {c} :
                     /\ data'[s] = data[s]
                     /\ Registrations(rooms', s) = Registrations(rooms, s)]_vars

\* C19: an event broadcast for a meeting is delivered only to connections
\* whose session records that meeting.
EventsStayInTheirMeeting ==
    bcast # <<>>
    => \A k \in DOMAIN sent :
           sent[k].msg = bcast[1].msg
           => data[sent[k].to].meetingId = bcast[1].meetingId

LowercaseLetters == {alphabet[i] : i \in DOMAIN alphabet}

\* 3 lowercase letters, a hyphen, 4 lowercase letters, a hyphen and 3
\* lowercase letters.
ThreeFourThree(chars) ==
    /\ Len(chars) = 12
    /\ \A k \in 1..12 : IF k \in {4, 9} THEN chars[k] = "-"
                                      ELSE chars[k] \in LowercaseLetters

\* C20: every code generateMeetingCode returns is accepted by
\* validateMeetingCode, and validateMeetingCode accepts exactly the strings
\* made of 3 lowercase letters, a hyphen, 4 lowercase letters, a hyphen and
\* 3 lowercase letters.
GeneratedCodesAreValid ==
    verdict # "none"
    => /\ verdict = "accepted" <=> ThreeFourThree(code.chars)
       /\ code.origin = "generated" => verdict = "accepted"

\* A generated code has been validated and accepted.
GeneratedCodeAccepted ==
    /\ code.origin = "generated"
    /\ verdict = "accepted"

\* C21: the step in which room.leave answers room.left, carrying the
\* request's id, leaves the sender's session as it is after authentication:
\* participantId, meetingId, role, displayName, mediaState and handRaised are
\* cleared, and authenticated and userId are as they were.
LeaveClearsRoomFields ==
    [][(/\ event'.op = "resume"
        /\ event'.handler = "handleRoomLeave"
        /\ \E k \in DOMAIN sent' : sent'[k].msg.type = "room.left")
       => LET c == event'.conn
          IN  /\ \E k \in DOMAIN sent' :
                     /\ sent'[k].to = c
                     /\ sent'[k].msg.type = "room.left"
                     /\ sent'[k].msg.requestId = event'.msg.requestId
              /\ data'[c] = [NewContext EXCEPT
                                !.authenticated = data[c].authenticated,
                                !.userId = data[c].userId]]_vars

\* C22: rtc.signal from a session in a room is sent to the connection
\* registered under `to` in the sender's meeting and to nobody else, with
\* `from` the sender's participantId and the envelope as it came; with no such
\* registration nothing is sent at all; nothing is broadcast or published.
SignalGoesToItsTargetOnly ==
    [][(/\ event'.op = "message"
        /\ event'.msg.type = "rtc.signal"
        /\ InRoom(data[event'.conn])
        /\ HasPayload(event'.msg))
       => LET c == event'.conn
              m == data[c].meetingId
              to == event'.msg.payload.to
              registered == m \in DOMAIN rooms /\ to \in DOMAIN rooms[m]
          IN  /\ Len(sent') <= 1
              /\ \A k \in DOMAIN sent' :
                     /\ registered
                     /\ sent'[k].to = rooms[m][to]
                     /\ sent'[k].msg.type = "rtc.signal"
                     /\ sent'[k].msg.payload =
                            [from |-> data[c].participantId,
                             type |-> event'.msg.payload.type,
                             sdp |-> event'.msg.payload.sdp]
              /\ (registered /\ status[rooms[m][to]] = "open") => Len(sent') = 1
              /\ bcast' = <<>>
              /\ published' = <<>>
              /\ UNCHANGED <<data, rooms, status>>]_vars

\* A signal has been forwarded to another connection.
SignalForwarded ==
    /\ event.msg.type = "rtc.signal"
    /\ Len(sent) = 1
    /\ sent[1].to # event.conn
    /\ sent[1].msg.type = "rtc.signal"
    /\ sent[1].msg.payload.from = data[event.conn].participantId

\* C23: when a host or cohost removes a participant registered in its
\* meeting, the target is sent room.kicked ahead of every other send of the
\* step, participant.left for the target is then sent once to every session
\* that remains registered in the meeting and not to the target, and the
\* registry no longer has an entry for the target's participantId.
RemoveKicksThenAnnounces ==
    [][(/\ event'.op = "message"
        /\ event'.msg.type = "moderation.remove"
        /\ InRoom(data[event'.conn])
        /\ data[event'.conn].role \in {"host", "cohost"}
        /\ HasPayload(event'.msg)
        /\ data[event'.conn].meetingId \in DOMAIN rooms
        /\ event'.msg.payload.participantId \in DOMAIN rooms[data[event'.conn].meetingId])
       => LET m == data[event'.conn].meetingId
              targetId == event'.msg.payload.participantId
              target == rooms[m][targetId]
              left == Response("participant.left", "none",
                               [participantId |-> targetId], "none")
          IN  /\ status[target] = "open"
                 => /\ sent' # <<>>
                    /\ sent'[1].to = target
                    /\ sent'[1].msg.type = "room.kicked"
              /\ \A s \in RegisteredIn(rooms', m) \ {target} :
                     status[s] = "open" => Deliveries(sent', s, left) = 1
              /\ Deliveries(sent', target, left) = 0
              /\ ~(m \in DOMAIN rooms' /\ targetId \in DOMAIN rooms'[m])]_vars

\* The position in `before` of the handler that the step to `after` resumed:
\* the first position at which the two differ.
ResumedAt(before, after) ==
    CHOOSE i \in 1..Len(before) :
        /\ \A j \in 1..(i - 1) : j <= Len(after) /\ after[j] = before[j]
        /\ i > Len(after) \/ after[i] # before[i] \/ i = Len(before)

\* C24: no two messages of one connection are handled at the same time, and
\* a handler that broadcasts its event does so before every later message of
\* its connection has broadcast and published its own.
PerSenderOrder ==
    [][/\ \A c \in Conns : Len(inflight'[c]) <= 1
       /\ (/\ event'.op = "resume"
           /\ bcast' # <<>>)
          => LET handlers == inflight[event'.conn]
                 i == ResumedAt(handlers, inflight'[event'.conn])
             IN  \A j \in (i + 1)..Len(handlers) :
                     handlers[j].await \notin {"join.publish", "leave.publish"}]_vars

\* C25: every room entry of the registry holds at least one session, and
\* a room entry appears only in a step of handleRoomJoin.
NoEmptyRoom ==
    /\ [](\A m \in DOMAIN rooms : DOMAIN rooms[m] # {})
    /\ [][DOMAIN rooms' \ DOMAIN rooms # {} => event'.handler = "handleRoomJoin"]_vars

\* moderation.remove has taken the last session out of a room and the room's
\* entry is gone.
RoomEmptiedAndDeleted ==
    /\ \E m \in Meetings : joins[m] > 0 /\ leaves[m] > 0 /\ m \notin DOMAIN rooms
    /\ event.handler = "handleModerationRemove"

\* C26: every registry entry (meeting, participantId) -> connection is the
\* meeting and participantId that the connection's session records, and every
\* open connection whose session records a meeting and a participantId is the
\* connection registered under them.
RegistryAgreesWithSessions ==
    /\ \A m \in DOMAIN rooms : \A p \in DOMAIN rooms[m] :
           /\ data[rooms[m][p]].meetingId = m
           /\ data[rooms[m][p]].participantId = p
    /\ \A s \in Conns :
           (status[s] = "open" /\ InRoom(data[s]))
           => /\ data[s].meetingId \in DOMAIN rooms
              /\ data[s].participantId \in DOMAIN rooms[data[s].meetingId]
              /\ rooms[data[s].meetingId][data[s].participantId] = s

\* C27: the close or the room.leave of a connection takes no other
\* connection's registration out of the registry, so a connection that
\* joined later under the same participantId stays registered.
EarlierConnectionLeavesLaterAlone ==
    [][(event'.op = "close" \/ event'.handler = "handleRoomLeave")
       => \A s \in Conns \ {event'.conn} :
              Registrations(rooms, s) \subseteq Registrations(rooms', s)]_vars

\* C28: participant.left is broadcast for a participantId at most once
\* between two joins of that participant.
LeftAnnouncedOncePerJoin ==
    [][(/\ bcast' # <<>>
        /\ bcast'[1].msg.type = "participant.left")
       => <<bcast'[1].meetingId, bcast'[1].msg.payload.participantId>>
              \notin announcedLeft]_vars

\* C29: the step of handleRoomLeave in which updateLeftAt rejects changes
\* nothing: the registry, the sessions and the connections stay as they
\* were, nothing is broadcast or published, and nothing is sent.
FailedLeaveChangesNothing ==
    [][(\E c \in Conns, i \in InFlight, brokerUp \in BOOLEAN :
            LeftAtUpdated(c, i, FALSE, brokerUp))
       => /\ rooms' = rooms
          /\ data' = data
          /\ status' = status
          /\ bcast' = <<>>
          /\ published' = <<>>
          /\ sent' = <<>>]_vars

\* A room.leave has ended in its catch with nothing broadcast, and its
\* sender is still registered under the meeting and participantId it records.
LeaveFailedStillRegistered ==
    /\ event.op = "resume"
    /\ event.handler = "handleRoomLeave"
    /\ event.caught
    /\ bcast = <<>>
    /\ InRoom(data[event.conn])
    /\ <<data[event.conn].meetingId, data[event.conn].participantId>>
           \in Registrations(rooms, event.conn)

\* C30: the invite's status changes only from pending, to accepted or to
\* declined; a call that finds the invite not pending ends with
\* alreadyProcessed; and at most one participant is created for the invite.
InviteIsProcessedOnce ==
    [][/\ invite' # invite
          => (invite = "pending" /\ invite' \in {"accepted", "declined"})
       /\ participants' <= 1
       /\ \A q \in Requests :
              (calls[q].at = "findById" /\ calls'[q] # calls[q]
               /\ calls[q].inviteId = "i1" /\ invite # "pending")
              => (calls'[q].result = "alreadyProcessed" /\ participants' = participants)]_vars
====
